---------------------------- MODULE Spec2Model ----------------------------
(***************************************************************************)
(* A model of CGAL's Interval_skip_list (include/CGAL/Interval_skip_list.h)*)
(* A key node is identified by its key; the header is HEADER; a marker     *)
(* list is the sequence of interval handles read from its head; an         *)
(* interval handle is the index of a cell of the interval container.       *)
(***************************************************************************)
EXTENDS Integers, Sequences, FiniteSets, TLC

\* ------------------------------------------------------------- bounds
MaxVal == 3
MaxLevel == 2      \* coin flips counted by randomLevel are 0..MaxLevel
MaxCells == 3      \* cells of the interval container
MaxOps == 7
MaxSeq == 2        \* length of the sequence given to the range constructor
MaxStripOps == 4   \* operations before a state given to removeMarkFromLevel
MaxQueryOps == 4   \* updates before the queries of SpecQueries

\* ---------------------------------------------------------- constants
MAX_FORWARD == 48
HEADER == 0
NULL == 0 - 1
UNINIT == 0 - 2

Keys == 1..MaxVal
Levels == 0..MaxLevel
Handles == 1..MaxCells
Queries == 0..(MaxVal + 1)

\* The Interval capability: inf(), sup(), contains(v), contains_interval(a,b)
\* and value equality, for the closed intervals [inf, sup] over Keys.
IntervalValues == { [inf |-> a, sup |-> b] : a \in Keys, b \in Keys }
Intervals == { I \in IntervalValues : I.inf <= I.sup }

contains(I, v) == I.inf <= v /\ v <= I.sup

contains_interval(I, a, b) == \A v \in a..b : contains(I, v)

\* ------------------------------------------------------ IntervalList
\* IntervalList::insert: prepend a cell holding handle h
ListInsert(L, h) == <<h>> \o L

\* IntervalList::copy(from): insert every handle of from, head first
RECURSIVE ListCopy(_, _)
ListCopy(L, from) ==
  IF from = <<>> THEN L ELSE ListCopy(ListInsert(L, Head(from)), Tail(from))

\* index of the first cell whose interval equals I by value, 0 if none
RECURSIVE FirstMatch(_, _, _, _)
FirstMatch(L, I, cont, k) ==
  IF k > Len(L) THEN 0
  ELSE IF cont[L[k]] = I THEN k
  ELSE FirstMatch(L, I, cont, k + 1)

DropAt(L, k) == [j \in 1..(Len(L) - 1) |-> IF j < k THEN L[j] ELSE L[j + 1]]

\* IntervalList::remove(I): unlink the first cell equal to I by value
ListRemove(L, I, cont) ==
  LET k == FirstMatch(L, I, cont, 1) IN IF k = 0 THEN L ELSE DropAt(L, k)

\* IntervalList::remove(I, res): as above, reporting the handle found
ListRemoveRes(L, I, cont) ==
  LET k == FirstMatch(L, I, cont, 1) IN
  IF k = 0 THEN [found |-> FALSE, list |-> L, res |-> NULL]
  ELSE [found |-> TRUE, list |-> DropAt(L, k), res |-> L[k]]

\* IntervalList::removeAll(l)
RECURSIVE ListRemoveAll(_, _, _)
ListRemoveAll(L, l, cont) ==
  IF l = <<>> THEN L
  ELSE ListRemoveAll(ListRemove(L, cont[Head(l)], cont), Tail(l), cont)

\* IntervalList::copy(out): the interval values in list order
ListEmit(L, cont) == [k \in 1..Len(L) |-> cont[L[k]]]

\* --------------------------------------------------------- the state
VARIABLES nodes, topLevel, forward, markers, eqMarkers, ownerCount,
          maxLevel, container, live, fault, lastOp, ops

vars == <<nodes, topLevel, forward, markers, eqMarkers, ownerCount,
          maxLevel, container, live, fault, lastOp, ops>>

AllNodes == Keys \cup {HEADER}

NoInterval == [inf |-> 0, sup |-> 0 - 1]

\* the data structure as one record, the form the operators work on
Pack ==
  [nodes |-> nodes, topLevel |-> topLevel, forward |-> forward,
   markers |-> markers, eqMarkers |-> eqMarkers, ownerCount |-> ownerCount,
   maxLevel |-> maxLevel, container |-> container, live |-> live,
   fault |-> fault]

\* IntervalSLnode constructors and Interval_skip_list(): an empty list
EmptyList ==
  [nodes |-> {},
   topLevel |-> [n \in AllNodes |-> IF n = HEADER THEN MAX_FORWARD ELSE NULL],
   forward |-> [n \in AllNodes |-> [i \in Levels |-> NULL]],
   markers |-> [n \in AllNodes |-> [i \in Levels |-> <<>>]],
   eqMarkers |-> [n \in AllNodes |-> <<>>],
   ownerCount |-> [n \in AllNodes |-> 0],
   maxLevel |-> 0,
   container |-> [h \in Handles |-> NoInterval],
   live |-> {},
   fault |-> FALSE]

Fault(S) == [S EXCEPT !.fault = TRUE]

\* ------------------------------------------------------------ search
RECURSIVE Advance(_, _, _, _)
Advance(S, x, i, searchKey) ==
  LET f == S.forward[x][i] IN
  IF f # NULL /\ f < searchKey THEN Advance(S, f, i, searchKey) ELSE x

RECURSIVE SearchFrom(_, _, _, _, _)
SearchFrom(S, x, i, searchKey, update) ==
  IF i < 0 THEN [x |-> S.forward[x][0], update |-> update]
  ELSE LET y == Advance(S, x, i, searchKey) IN
       SearchFrom(S, y, i - 1, searchKey, [update EXCEPT ![i] = y])

\* search(searchKey, update)
searchUpdate(S, searchKey) ==
  SearchFrom(S, HEADER, S.maxLevel, searchKey, [i \in Levels |-> UNINIT])

\* search(searchKey)
search(S, searchKey) ==
  LET x == searchUpdate(S, searchKey).x IN
  IF x # NULL /\ x = searchKey THEN x ELSE NULL

\* -------------------------------------------------- removeMarkFromLevel
\* a removeMarkFromLevel that leaves every mark where it is
keepMarkOnLevel(S, m, i, l, r) == S

RECURSIVE removeMarkFromLevel(_, _, _, _, _)
removeMarkFromLevel(S, m, i, l, r) ==
  IF l = NULL THEN S
  ELSE IF l = r
    THEN [S EXCEPT !.eqMarkers[l] = ListRemove(@, m, S.container)]
  ELSE removeMarkFromLevel(
         [S EXCEPT !.markers[l][i] = ListRemove(@, m, S.container),
                   !.eqMarkers[l] = ListRemove(@, m, S.container)],
         m, i, S.forward[l][i], r)


\* ------------------------------------------------ adjustMarkersOnInsert
\* Phase 1, first inner loop: the markers of update[i]->markers[i]
RECURSIVE P1Marks(_, _, _, _, _)
P1Marks(S, x, i, markList, newPromoted) ==
  IF markList = <<>> THEN [S |-> S, newPromoted |-> newPromoted]
  ELSE LET m == Head(markList) IN
       IF contains_interval(S.container[m], x, S.forward[x][i + 1])
       THEN P1Marks(removeMarkFromLevel(S, S.container[m], i,
                                        S.forward[x][i], S.forward[x][i + 1]),
                    x, i, Tail(markList), ListInsert(newPromoted, m))
       ELSE P1Marks([S EXCEPT !.markers[x][i] = ListInsert(@, m)],
                    x, i, Tail(markList), newPromoted)

\* Phase 1, second inner loop: the markers promoted from the level below
RECURSIVE P1Promoted(_, _, _, _, _)
P1Promoted(S, x, i, promoted, removePromoted) ==
  IF promoted = <<>> THEN [S |-> S, removePromoted |-> removePromoted]
  ELSE LET m == Head(promoted)
           f == S.forward[x][i] IN
       IF ~contains_interval(S.container[m], x, S.forward[x][i + 1])
       THEN LET S1 == [S EXCEPT !.markers[x][i] = ListInsert(@, m)]
                S2 == IF contains(S.container[m], f)
                      THEN [S1 EXCEPT !.eqMarkers[f] = ListInsert(@, m)]
                      ELSE S1
            IN P1Promoted(S2, x, i, Tail(promoted),
                          ListInsert(removePromoted, m))
       ELSE P1Promoted(removeMarkFromLevel(S, S.container[m], i, f,
                                           S.forward[x][i + 1]),
                       x, i, Tail(promoted), removePromoted)

RECURSIVE Phase1Loop(_, _, _, _, _)
\* the end of a round: promoted loses removePromoted and gains newPromoted
P1Next(S, x, update, i, promoted, newPromoted, b) ==
  Phase1Loop(b.S, x, update, i + 1,
             ListCopy(ListRemoveAll(promoted, b.removePromoted, S.container),
                      newPromoted))

\* a round after its first inner loop, which returned a
P1Round(S, x, update, i, promoted, a) ==
  P1Next(S, x, update, i, promoted, a.newPromoted,
         P1Promoted(a.S, x, i, promoted, <<>>))

Phase1Loop(S, x, update, i, promoted) ==
  IF i <= S.topLevel[x] - 1 /\ S.forward[x][i + 1] # NULL
  THEN P1Round(S, x, update, i, promoted,
               P1Marks(S, x, i, S.markers[update[i]][i], <<>>))
  ELSE [S |-> S, i |-> i, promoted |-> promoted]

\* insert into n->eqMarkers every marker of list that contains n->key
RECURSIVE MarkNode(_, _, _)
MarkNode(S, n, list) ==
  IF list = <<>> THEN S
  ELSE IF n = NULL \/ n = HEADER THEN Fault(S)
  ELSE MarkNode(IF contains(S.container[Head(list)], n)
                THEN [S EXCEPT !.eqMarkers[n] = ListInsert(@, Head(list))]
                ELSE S,
                n, Tail(list))

\* r is what the loop returns: the list, the level reached and promoted
P1Exit(x, update, r) ==
  MarkNode([r.S EXCEPT !.markers[x][r.i] =
               ListCopy(ListCopy(@, r.promoted),
                        r.S.markers[update[r.i]][r.i])],
           r.S.forward[x][r.i], r.promoted)

Phase1(S, x, update) == P1Exit(x, update, Phase1Loop(S, x, update, 0, <<>>))

\* Phase 2, first inner loop: the copy of update[i]->markers[i]
RECURSIVE P2Temp(_, _, _, _, _, _)
P2Temp(S, x, update, i, tempMarkList, newPromoted) ==
  IF tempMarkList = <<>> THEN [S |-> S, newPromoted |-> newPromoted]
  ELSE LET m == Head(tempMarkList) IN
       IF contains_interval(S.container[m], update[i + 1], x)
       THEN P2Temp(removeMarkFromLevel(S, S.container[m], i,
                                       update[i + 1], x),
                   x, update, i, Tail(tempMarkList),
                   ListInsert(newPromoted, m))
       ELSE P2Temp(S, x, update, i, Tail(tempMarkList), newPromoted)

\* Phase 2, second inner loop: the markers promoted from the level below
RECURSIVE P2Promoted(_, _, _, _, _, _)
P2Promoted(S, x, update, i, promoted, removePromoted) ==
  IF promoted = <<>> THEN [S |-> S, removePromoted |-> removePromoted]
  ELSE LET m == Head(promoted)
           u == update[i] IN
       IF /\ u # HEADER
          /\ contains_interval(S.container[m], u, x)
          /\ update[i + 1] # HEADER
          /\ ~contains_interval(S.container[m], update[i + 1], x)
       THEN LET S1 == [S EXCEPT !.markers[u][i] = ListInsert(@, m)]
                S2 == IF contains(S.container[m], u)
                      THEN [S1 EXCEPT !.eqMarkers[u] = ListInsert(@, m)]
                      ELSE S1
            IN P2Promoted(S2, x, update, i, Tail(promoted),
                          ListInsert(removePromoted, m))
       ELSE P2Promoted(removeMarkFromLevel(S, S.container[m], i,
                                           update[i + 1], x),
                       x, update, i, Tail(promoted), removePromoted)

RECURSIVE Phase2Loop(_, _, _, _, _)
P2Next(S, x, update, i, promoted, newPromoted, b) ==
  Phase2Loop(b.S, x, update, i + 1,
             ListCopy(ListRemoveAll(promoted, b.removePromoted, S.container),
                      newPromoted))

P2Round(S, x, update, i, promoted, a) ==
  P2Next(S, x, update, i, promoted, a.newPromoted,
         P2Promoted(a.S, x, update, i, promoted, <<>>))

Phase2Loop(S, x, update, i, promoted) ==
  IF i <= S.topLevel[x] - 1 /\ update[i + 1] # HEADER
  THEN P2Round(S, x, update, i, promoted,
               P2Temp(S, x, update, i,
                      ListCopy(<<>>, S.markers[update[i]][i]), <<>>))
  ELSE [S |-> S, i |-> i, promoted |-> promoted]

\* an exit of phase 2 that deposits promoted on the edge into x one level
\* above the level the loop stopped at, when that edge leaves the header
exitOneLevelUp(update, r) ==
  IF r.i < MaxLevel /\ update[r.i + 1] = HEADER
  THEN [r.S EXCEPT !.markers[HEADER][r.i + 1] = ListCopy(@, r.promoted)]
  ELSE MarkNode([r.S EXCEPT !.markers[update[r.i]][r.i] =
                   ListCopy(@, r.promoted)],
                update[r.i], r.promoted)

P2Exit(update, r) ==
  MarkNode([r.S EXCEPT !.markers[update[r.i]][r.i] = ListCopy(@, r.promoted)],
           update[r.i], r.promoted)

Phase2(S, x, update) == P2Exit(update, Phase2Loop(S, x, update, 0, <<>>))

\* a closing loop that copies nothing
copyNothingToEq(S, x, i) == S

\* the closing loop: x->eqMarkers receives every marker that leaves x
RECURSIVE CopyToEq(_, _, _)
CopyToEq(S, x, i) ==
  IF i > S.topLevel[x] THEN S
  ELSE CopyToEq([S EXCEPT !.eqMarkers[x] = ListCopy(@, S.markers[x][i])],
                x, i + 1)

adjustMarkersOnInsert(S, x, update) ==
  CopyToEq(Phase2(Phase1(S, x, update), x, update), x, 0)

\* --------------------------------------------- insert(const Value&)
\* a randomLevel without the cap at maxLevel + 1
randomUncapped(S, levels) == levels

\* levels is the number of coin flips that randomLevel counted
randomLevel(S, levels) ==
  IF levels <= S.maxLevel THEN levels ELSE S.maxLevel + 1

\* a splice that links the new node on level 0 only
spliceLevelZero(S, x, update, i) ==
  [S EXCEPT !.forward[x][0] = S.forward[update[0]][0],
            !.forward[update[0]][0] = x]

RECURSIVE Splice(_, _, _, _)
Splice(S, x, update, i) ==
  IF i > S.topLevel[x] THEN S
  ELSE Splice([S EXCEPT !.forward[x][i] = S.forward[update[i]][i],
                        !.forward[update[i]][i] = x],
              x, update, i + 1)

\* a new node that leaves maxLevel as it is
newNodeKeepsMaxLevel(S, x, newLevel) ==
  [S EXCEPT
      !.nodes = @ \cup {x},
      !.topLevel[x] = newLevel,
      !.forward[x] = [i \in Levels |-> NULL],
      !.markers[x] = [i \in Levels |-> <<>>],
      !.eqMarkers[x] = <<>>,
      !.ownerCount[x] = 0]

\* the new node x with its marker lists, and the levels the list gains
NewNode(S, x, newLevel) ==
  [[S EXCEPT
      !.markers[HEADER] =
          [i \in Levels |->
             IF S.maxLevel < i /\ i <= newLevel THEN <<>> ELSE @[i]],
      !.maxLevel = IF newLevel > @ THEN newLevel ELSE @]
   EXCEPT
      !.nodes = @ \cup {x},
      !.topLevel[x] = newLevel,
      !.forward[x] = [i \in Levels |-> NULL],
      !.markers[x] = [i \in Levels |-> <<>>],
      !.eqMarkers[x] = <<>>,
      !.ownerCount[x] = 0]

SpliceNode(S, x, update) ==
  [S |-> adjustMarkersOnInsert(Splice(S, x, update, 0), x, update), x |-> x]

\* update holds the header on the levels the list gains
InsertNode(S, searchKey, newLevel, update) ==
  SpliceNode(NewNode(S, searchKey, newLevel), searchKey,
             [i \in Levels |->
                IF S.maxLevel < i /\ i <= newLevel
                THEN HEADER ELSE update[i]])

\* an insert(searchKey) that draws a level, and lets the list gain levels,
\* before it looks at what the search found
insertDrawsFirst(S, searchKey, levels, r) ==
  IF r.x # NULL /\ r.x = searchKey
  THEN [S |-> [S EXCEPT !.maxLevel = IF randomLevel(S, levels) > @
                                     THEN randomLevel(S, levels) ELSE @],
        x |-> r.x]
  ELSE InsertNode(S, searchKey, randomLevel(S, levels), r.update)

\* r is what search(searchKey, update) returns
InsertAt(S, searchKey, levels, r) ==
  IF r.x # NULL /\ r.x = searchKey THEN [S |-> S, x |-> r.x]
  ELSE InsertNode(S, searchKey, randomLevel(S, levels), r.update)

insertValue(S, searchKey, levels) ==
  InsertAt(S, searchKey, levels, searchUpdate(S, searchKey))

\* ------------------------------------------------------- placeMarkers
\* the inner loop of the ascending walk: the highest level whose edge
\* out of x is still inside I
RECURSIVE Climb(_, _, _, _)
Climb(S, I, x, i) ==
  IF /\ i # S.topLevel[x]
     /\ S.forward[x][i + 1] # NULL
     /\ contains_interval(I, x, S.forward[x][i + 1])
  THEN Climb(S, I, x, i + 1) ELSE i

\* the inner loop of the non-ascending walk
RECURSIVE Descend(_, _, _, _)
Descend(S, I, x, i) ==
  IF i # 0 /\ (S.forward[x][i] = NULL
                 \/ ~contains_interval(I, x, S.forward[x][i]))
  THEN Descend(S, I, x, i - 1) ELSE i

MarkIf(S, I, h, x) ==
  IF contains(I, x) THEN [S EXCEPT !.eqMarkers[x] = ListInsert(@, h)] ELSE S

RECURSIVE PlaceDown(_, _, _, _, _, _)
\* mark the level j edge of x and step to its end
PlaceDownAt(S, right, I, h, x, j) ==
  IF S.forward[x][j] = NULL
  THEN Fault([S EXCEPT !.markers[x][j] = ListInsert(@, h)])
  ELSE PlaceDown(MarkIf([S EXCEPT !.markers[x][j] = ListInsert(@, h)],
                        I, h, S.forward[x][j]),
                 right, I, h, S.forward[x][j], j)

PlaceDown(S, right, I, h, x, i) ==
  IF x = right THEN S
  ELSE PlaceDownAt(S, right, I, h, x, Descend(S, I, x, i))

RECURSIVE PlaceUp(_, _, _, _, _, _)
PlaceUpAt(S, right, I, h, x, j) ==
  PlaceUp(MarkIf([S EXCEPT !.markers[x][j] = ListInsert(@, h)],
                 I, h, S.forward[x][j]),
          right, I, h, S.forward[x][j], j)

PlaceUp(S, right, I, h, x, i) ==
  IF S.forward[x][i] # NULL /\ contains_interval(I, x, S.forward[x][i])
  THEN PlaceUpAt(S, right, I, h, x, Climb(S, I, x, i))
  ELSE PlaceDown(S, right, I, h, x, i)

placeMarkers(S, left, right, h) ==
  PlaceUp(MarkIf(S, S.container[h], h, left), right, S.container[h], h,
          left, 0)


\* ------------------------------------------------ adjustMarkersOnDelete
\* the markers of list that leave their edge: keep(m) says m stays
RECURSIVE D1NewDemoted(_, _, _, _, _, _)
D1NewDemoted(S, x, update, i, list, newDemoted) ==
  IF list = <<>> THEN newDemoted
  ELSE LET m == Head(list) IN
       D1NewDemoted(S, x, update, i, Tail(list),
         IF \/ S.forward[x][i] = NULL
            \/ ~contains_interval(S.container[m], update[i], S.forward[x][i])
         THEN ListInsert(newDemoted, m) ELSE newDemoted)

\* Phase 1: place m on the level i edges from update[i+1] up to update[i]
RECURSIVE D1Chain(_, _, _, _, _)
D1Chain(S, update, i, m, y) ==
  IF y # NULL /\ y # update[i]
  THEN LET S1 == IF y # update[i + 1] /\ contains(S.container[m], y)
                 THEN [S EXCEPT !.eqMarkers[y] = ListInsert(@, m)] ELSE S
           S2 == [S1 EXCEPT !.markers[y][i] = ListInsert(@, m)]
       IN D1Chain(S2, update, i, m, S.forward[y][i])
  ELSE IF y # NULL /\ y # update[i + 1] /\ contains(S.container[m], y)
  THEN [S EXCEPT !.eqMarkers[y] = ListInsert(@, m)]
  ELSE S

RECURSIVE D1Demoted(_, _, _, _, _, _)
\* S1 is S with the head of demoted placed on the chain
D1Placed(S, S1, x, update, i, demoted, tempRemoved) ==
  IF S.forward[x][i] # NULL /\ update[i] = HEADER
  THEN [S |-> Fault(S1), tempRemoved |-> tempRemoved]
  ELSE IF
     /\ S.forward[x][i] # NULL
     /\ contains_interval(S.container[Head(demoted)], update[i],
                          S.forward[x][i])
  THEN D1Demoted(
         [S1 EXCEPT !.markers[update[i]][i] = ListInsert(@, Head(demoted))],
         x, update, i, Tail(demoted),
         ListInsert(tempRemoved, Head(demoted)))
  ELSE D1Demoted(S1, x, update, i, Tail(demoted), tempRemoved)

D1Demoted(S, x, update, i, demoted, tempRemoved) ==
  IF demoted = <<>> THEN [S |-> S, tempRemoved |-> tempRemoved]
  ELSE D1Placed(S, D1Chain(S, update, i, Head(demoted), update[i + 1]),
                x, update, i, demoted, tempRemoved)

RECURSIVE DeletePhase1(_, _, _, _, _)
\* the end of a round: demoted loses tempRemoved and gains newDemoted
D1Next(S, x, update, i, demoted, newDemoted, b) ==
  DeletePhase1(b.S, x, update, i - 1,
               ListCopy(ListRemoveAll(demoted, b.tempRemoved, S.container),
                        newDemoted))

D1Round(S, x, update, i, demoted, newDemoted) ==
  D1Next(S, x, update, i, demoted, newDemoted,
         D1Demoted([S EXCEPT !.markers[update[i]][i] =
                       ListRemoveAll(@, newDemoted, S.container)],
                   x, update, i, demoted, <<>>))

DeletePhase1(S, x, update, i, demoted) ==
  IF i < 0 THEN S
  ELSE IF /\ update[i] = HEADER
          /\ S.markers[update[i]][i] # <<>>
          /\ S.forward[x][i] # NULL
  THEN Fault(S)    \* the header's key would be read
  ELSE D1Round(S, x, update, i, demoted,
               D1NewDemoted(S, x, update, i, S.markers[update[i]][i], <<>>))

RECURSIVE D2NewDemoted(_, _, _, _, _, _)
D2NewDemoted(S, x, update, i, list, newDemoted) ==
  IF list = <<>> THEN newDemoted
  ELSE LET m == Head(list) IN
       D2NewDemoted(S, x, update, i, Tail(list),
         IF /\ S.forward[x][i] # NULL
            /\ \/ update[i] = HEADER
               \/ ~contains_interval(S.container[m], update[i],
                                     S.forward[x][i])
         THEN ListInsert(newDemoted, m) ELSE newDemoted)

\* Phase 2: place m on the level i edges from x->forward[i] up to
\* x->forward[i+1]
RECURSIVE D2Chain(_, _, _, _, _)
D2Chain(S, i, m, y, stop) ==
  IF y = stop THEN S
  ELSE IF y = NULL THEN Fault(S)
  ELSE D2Chain([S EXCEPT !.eqMarkers[y] = ListInsert(@, m),
                         !.markers[y][i] = ListInsert(@, m)],
               i, m, S.forward[y][i], stop)

RECURSIVE D2Demoted(_, _, _, _, _, _)
D2Demoted(S, x, update, i, demoted, tempRemoved) ==
  IF demoted = <<>> THEN [S |-> S, tempRemoved |-> tempRemoved]
  ELSE LET m == Head(demoted)
           S1 == D2Chain(S, i, m, S.forward[x][i], S.forward[x][i + 1])
       IN D2Demoted(S1, x, update, i, Tail(demoted),
            IF /\ S.forward[x][i] # NULL
               /\ update[i] # HEADER
               /\ contains_interval(S.container[m], update[i],
                                    S.forward[x][i])
            THEN ListInsert(tempRemoved, m) ELSE tempRemoved)

\* tempRemoved is not cleared between the levels of phase 2
RECURSIVE DeletePhase2(_, _, _, _, _, _)
D2Next(S, x, update, i, demoted, newDemoted, b) ==
  DeletePhase2(b.S, x, update, i - 1,
               ListCopy(ListRemoveAll(demoted, b.tempRemoved, S.container),
                        newDemoted),
               b.tempRemoved)

\* tempRemoved is not cleared between the levels of phase 2
DeletePhase2(S, x, update, i, demoted, tempRemoved) ==
  IF i < 0 THEN S
  ELSE D2Next(S, x, update, i, demoted,
              D2NewDemoted(S, x, update, i, S.markers[x][i], <<>>),
              D2Demoted(S, x, update, i, demoted, tempRemoved))

SecondPhase(S, x, update) ==
  IF S.fault THEN S
  ELSE DeletePhase2(S, x, update, S.topLevel[x], <<>>, <<>>)

adjustMarkersOnDelete(S, x, update) ==
  SecondPhase(DeletePhase1(S, x, update, S.topLevel[x], <<>>), x, update)

\* ---------------------------------------- remove(node x, update)
\* a splice that leaves every pointer to x in place
spliceOutNothing(S, x, update, i) == S

RECURSIVE SpliceOut(_, _, _, _)
SpliceOut(S, x, update, i) ==
  IF i > S.topLevel[x] THEN S
  ELSE SpliceOut([S EXCEPT !.forward[update[i]][i] = S.forward[x][i]],
                 x, update, i + 1)

\* delete x: the node and its marker lists are released
DeleteNode(S, x) ==
  [S EXCEPT !.nodes = @ \ {x},
            !.topLevel[x] = NULL,
            !.forward[x] = [i \in Levels |-> NULL],
            !.markers[x] = [i \in Levels |-> <<>>],
            !.eqMarkers[x] = <<>>,
            !.ownerCount[x] = 0]

\* a remove(node) that repairs the markers but leaves the node in the list
removeNodeKeepsNode(S, x, update) == adjustMarkersOnDelete(S, x, update)

\* S has the markers repaired: splice x out and delete it
Unlink(S, x, update) ==
  IF S.fault THEN S ELSE DeleteNode(SpliceOut(S, x, update, 0), x)

removeNode(S, x, update) ==
  Unlink(adjustMarkersOnDelete(S, x, update), x, update)

\* ------------------------------------------------------ removeMarkers
\* W is the walk: the list S, the cursor x, the level i and the handle res;
\* taken are the handles the calls of remove(I, tmp) have found so far, and
\* missed tells that one of them found none
\* r is what remove(I, tmp) returns
Taken(W, r) ==
  [W EXCEPT !.res = IF r.found THEN r.res ELSE @,
            !.taken = IF r.found THEN @ \cup {r.res} ELSE @,
            !.missed = @ \/ ~r.found]

TakeEqAt(W, r) == Taken([W EXCEPT !.S.eqMarkers[W.x] = r.list], r)

TakeEq(W, I) ==
  IF contains(I, W.x)
  THEN TakeEqAt(W, ListRemoveRes(W.S.eqMarkers[W.x], I, W.S.container))
  ELSE W

TakeEdgeAt(W, j, r) ==
  [Taken(W, r) EXCEPT !.S.markers[W.x][j] = r.list,
                      !.i = j,
                      !.x = W.S.forward[W.x][j]]

TakeEdge(W, I, j) ==
  TakeEdgeAt(W, j, ListRemoveRes(W.S.markers[W.x][j], I, W.S.container))

RECURSIVE RemoveDown(_, _)
\* W has taken the mark from an edge and stands at its end
RemoveDownAt(W, I) ==
  IF W.x = NULL THEN [W EXCEPT !.S = Fault(@)]
  ELSE RemoveDown(TakeEq(W, I), I)

RemoveDown(W, I) ==
  IF W.x = I.sup THEN W
  ELSE RemoveDownAt(TakeEdge(W, I, Descend(W.S, I, W.x, W.i)), I)

RECURSIVE RemoveUp(_, _)
RemoveUp(W, I) ==
  IF /\ W.S.forward[W.x][W.i] # NULL
     /\ contains_interval(I, W.x, W.S.forward[W.x][W.i])
  THEN RemoveUp(TakeEq(TakeEdge(W, I, Climb(W.S, I, W.x, W.i)), I), I)
  ELSE RemoveDown(W, I)

\* assert(*res == I) reads through res
CheckRes(W, I) ==
  IF W.S.fault THEN [S |-> W.S, res |-> W.res]
  ELSE IF W.res = NULL \/ W.S.container[W.res] # I
       THEN [S |-> Fault(W.S), res |-> W.res]
       ELSE [S |-> W.S, res |-> W.res]

\* the two loops of removeMarkers, before the assertion
removeWalk(S, left, I) ==
  RemoveUp(TakeEq([S |-> S, x |-> left, i |-> 0, res |-> NULL,
                   taken |-> {}, missed |-> FALSE], I), I)

removeMarkers(S, left, I) == CheckRes(removeWalk(S, left, I), I)

\* ------------------------------------------- remove(const Interval&)
\* S has the owner count of x lowered: x goes when it reaches zero
DropNode(S, x, update) ==
  IF S.ownerCount[x] = 0 THEN removeNode(S, x, update) ELSE S

\* x->ownerCount--; if(x->ownerCount == 0) remove(x, update)
DropOwner(S, x, update) ==
  DropNode([S EXCEPT !.ownerCount[x] = @ - 1], x, update)

RemoveDone(S) == [S |-> S, ret |-> ~S.fault]

\* r is what search(I.sup(), update) returns
RemoveRightAt(S, r) ==
  IF r.x = NULL \/ S.ownerCount[r.x] <= 0 THEN [S |-> S, ret |-> FALSE]
  ELSE RemoveDone(DropOwner(S, r.x, r.update))

RemoveRight(S, I) ==
  IF S.fault THEN [S |-> S, ret |-> FALSE]
  ELSE RemoveRightAt(S, searchUpdate(S, I.sup))

\* rm is what removeMarkers returns: its cell is released
ReleaseInterval(I, left, update, rm) ==
  IF rm.S.fault THEN [S |-> rm.S, ret |-> FALSE]
  ELSE RemoveRight(DropOwner([rm.S EXCEPT !.live = @ \ {rm.res}],
                             left, update), I)

\* r is what search(I.inf(), update) returns
RemoveLeftAt(S, I, r) ==
  IF r.x = NULL \/ S.ownerCount[r.x] <= 0 THEN [S |-> S, ret |-> FALSE]
  ELSE ReleaseInterval(I, r.x, r.update, removeMarkers(S, r.x, I))

removeInterval(S, I) == RemoveLeftAt(S, I, searchUpdate(S, I.inf))

\* --------------------------------------------- insert(const Interval&)
\* insert(const Interval_handle&): h is the cell that holds the interval
\* b is what insert(I.sup()) returns
InsertMarkers(h, left, b) ==
  IF b.S.fault THEN b.S
  ELSE placeMarkers([[b.S EXCEPT !.ownerCount[left] = @ + 1]
                       EXCEPT !.ownerCount[b.x] = @ + 1],
                    left, b.x, h)

\* a is what insert(I.inf()) returns
InsertRight(I, h, levelsR, a) ==
  IF a.S.fault THEN a.S
  ELSE InsertMarkers(h, a.x, insertValue(a.S, I.sup, levelsR))

insertHandle(S, h, levelsL, levelsR) ==
  InsertRight(S.container[h], h, levelsR,
              insertValue(S, S.container[h].inf, levelsL))

\* container.get_new_element() hands out the free cell h
insertInterval(S, I, h, levelsL, levelsR) ==
  insertHandle([S EXCEPT !.live = @ \cup {h}, !.container[h] = I],
               h, levelsL, levelsR)

\* size()
size(S) == Cardinality(S.live)

\* clear(): every node is deleted with its marker lists, a new header is
\* made and maxLevel is 0; the interval container is not touched
clear(S) ==
  [EmptyList EXCEPT !.container = S.container, !.live = S.live]

\* ------------------------------------------------------ find_intervals
RECURSIVE AdvanceLeq(_, _, _, _)
AdvanceLeq(S, x, i, searchKey) ==
  LET f == S.forward[x][i] IN
  IF f # NULL /\ searchKey >= f THEN AdvanceLeq(S, f, i, searchKey) ELSE x

\* one round of the for loop at level i from node x; out is the output
RECURSIVE FindFrom(_, _, _, _, _)
FindFrom(S, x, i, searchKey, out) ==
  IF i >= 0 /\ (x = HEADER \/ x # searchKey)
  THEN LET y == AdvanceLeq(S, x, i, searchKey) IN
       FindFrom(S, y, i - 1, searchKey,
                IF y # HEADER /\ y # searchKey
                THEN out \o S.markers[y][i]
                ELSE IF y # HEADER THEN out \o S.eqMarkers[y]
                ELSE out)
  ELSE out

\* the handles whose intervals find_intervals writes to out, in order
find_handles(S, searchKey) == FindFrom(S, HEADER, S.maxLevel, searchKey, <<>>)

find_intervals(S, searchKey) ==
  ListEmit(find_handles(S, searchKey), S.container)


\* --------------------------------------------------------- is_contained
\* the two branches after the while loop at level i, at node y
RECURSIVE ContainedFrom(_, _, _, _)
ContainedAt(S, y, i, searchKey) ==
  IF y # HEADER /\ y # searchKey THEN TRUE
  ELSE IF y # HEADER THEN TRUE
  ELSE ContainedFrom(S, y, i - 1, searchKey)

\* one round of the for loop at level i from node x
ContainedFrom(S, x, i, searchKey) ==
  IF i >= 0 /\ (x = HEADER \/ x # searchKey)
  THEN ContainedAt(S, AdvanceLeq(S, x, i, searchKey), i, searchKey)
  ELSE FALSE

\* an is_contained that finds nothing
neverContained(S, searchKey) == FALSE

is_contained(S, searchKey) == ContainedFrom(S, HEADER, S.maxLevel, searchKey)


\* ------------------------------------------------ the element store
\* the marker lists of the nodes
AllLists(S) ==
  {S.markers[n][i] : n \in AllNodes, i \in Levels}
    \cup {S.eqMarkers[n] : n \in AllNodes}

Has(L, h) == \E k \in 1..Len(L) : L[k] = h

Referenced(S, h) == \E L \in AllLists(S) : Has(L, h)

\* Nothing can read a released cell that no marker cell refers to, so the
\* model forgets the content of such a cell.
Forget(S) ==
  [S EXCEPT !.container =
     [h \in Handles |->
        IF h \notin S.live /\ ~Referenced(S, h) THEN NoInterval ELSE @[h]]]

\* the released cells that a marker cell still refers to
Dangling(S) == {h \in Handles \ S.live : Referenced(S, h)}

\* What a read through a handle to a released cell finds is undefined: the
\* cell may still hold the interval it held when it was released, or the
\* free pool may have written over it, and then it equals no interval.
Decay(S) ==
  {[S EXCEPT !.container =
      [h \in Handles |-> IF h \in G THEN NoInterval ELSE @[h]]] :
     G \in SUBSET {h \in Dangling(S) : S.container[h] # NoInterval}}

\* the cells get_new_element may hand out: a released cell that is still
\* referred to, or a cell nothing refers to (these are interchangeable)
Blank(S) == (Handles \ S.live) \ Dangling(S)
FreeCells(S) ==
  Dangling(S) \cup {h \in Blank(S) : \A g \in Blank(S) : h <= g}

\* the numbers of coin flips that give different levels to a new node
Flips(S, key) ==
  IF key \in S.nodes THEN {0}
  ELSE IF MaxLevel < S.maxLevel + 2 THEN 0..MaxLevel
  ELSE 0..(S.maxLevel + 2)

\* ------------------------------------------- Interval_skip_list(b, e)
\* the cell that container.get_new_element() hands out to a list that has
\* released nothing
NewCell(S) == CHOOSE h \in FreeCells(S) : \A g \in FreeCells(S) : h <= g

\* for(; b != e; ++b) insert(*b), from the k-th element on; flips[k] are
\* the coin flips of the two endpoint insertions of the k-th insert
RECURSIVE InsertAll(_, _, _, _)
InsertAll(S, seq, flips, k) ==
  IF k > Len(seq) \/ S.fault THEN S
  ELSE InsertAll(insertInterval(S, seq[k], NewCell(S),
                                flips[k][1], flips[k][2]),
                 seq, flips, k + 1)

\* The range constructor initialises neither header nor maxLevel, and its
\* first insert reads both. What it finds is undefined: the read through
\* header faults, or the two words happen to be those of an empty list.
Uninitialised == {Fault(EmptyList), EmptyList}

\* ------------------------------------------------------ specification
Unpack(S) ==
  /\ nodes' = S.nodes
  /\ topLevel' = S.topLevel
  /\ forward' = S.forward
  /\ markers' = S.markers
  /\ eqMarkers' = S.eqMarkers
  /\ ownerCount' = S.ownerCount
  /\ maxLevel' = S.maxLevel
  /\ container' = S.container
  /\ live' = S.live
  /\ fault' = S.fault

Init ==
  /\ nodes = EmptyList.nodes
  /\ topLevel = EmptyList.topLevel
  /\ forward = EmptyList.forward
  /\ markers = EmptyList.markers
  /\ eqMarkers = EmptyList.eqMarkers
  /\ ownerCount = EmptyList.ownerCount
  /\ maxLevel = EmptyList.maxLevel
  /\ container = EmptyList.container
  /\ live = EmptyList.live
  /\ fault = EmptyList.fault
  /\ lastOp = [op |-> "none", ret |-> FALSE, gone |-> {}, arg |-> NoInterval]
  /\ ops = 0

\* a failed assertion or a fault ends the run
Running == ~fault /\ ops < MaxOps

\* insert(I) into cell h; levelsL and levelsR are the coin flips of the
\* two endpoint insertions
InsertOf(I, h, levelsL, levelsR) ==
  /\ Running
  /\ \E S \in Decay(Forget(insertInterval(Pack, I, h, levelsL, levelsR))) :
       Unpack(S)
  /\ lastOp' = [op |-> "insert", ret |-> FALSE, gone |-> {},
                arg |-> NoInterval]
  /\ ops' = ops + 1

\* remove(I)
\* r is what remove(I) returns; lastOp keeps the argument of a remove that
\* returned true
Removed(r, I) ==
  /\ \E S \in Decay(Forget(r.S)) : Unpack(S)
  /\ lastOp' = [op |-> "remove", ret |-> r.ret, gone |-> nodes \ r.S.nodes,
                arg |-> IF r.ret THEN I ELSE NoInterval]

RemoveOf(I) ==
  /\ Running
  /\ Removed(removeInterval(Pack, I), I)
  /\ ops' = ops + 1

\* Interval_skip_list(b, e) in place of Interval_skip_list(); ops counts
\* the inserts it makes, and lastOp keeps the sequence and the coin flips
ConstructOf(seq, flips) ==
  /\ Running
  /\ lastOp.op = "none"
  /\ \E S \in Uninitialised : Unpack(InsertAll(S, seq, flips, 1))
  /\ lastOp' = [op |-> "construct", ret |-> FALSE, gone |-> {},
                arg |-> [seq |-> seq, flips |-> flips]]
  /\ ops' = ops + Len(seq)

Construct ==
  /\ lastOp.op = "none"
  /\ \E seq \in UNION {[1..n -> Intervals] : n \in 1..MaxSeq} :
       \E flips \in [1..Len(seq) -> Levels \X Levels] :
         ConstructOf(seq, flips)

\* clear()
Clear ==
  /\ Running
  /\ \E S \in Decay(Forget(clear(Pack))) : Unpack(S)
  /\ lastOp' = [op |-> "clear", ret |-> FALSE, gone |-> nodes,
                arg |-> NoInterval]
  /\ ops' = ops + 1

Insert ==
  \E I \in Intervals, h \in FreeCells(Pack) :
    \E levelsL \in Flips(Pack, I.inf), levelsR \in Flips(Pack, I.sup) :
      InsertOf(I, h, levelsL, levelsR)

Remove == \E I \in Intervals : RemoveOf(I)

Next == Insert \/ Remove \/ Clear \/ Construct

Spec == Init /\ [][Next]_vars

\* the runs of insert and remove on a list made by the default constructor
NextInsertRemove == Insert \/ Remove

SpecInsertRemove == Init /\ [][NextInsertRemove]_vars

\* the runs of insert and remove in which no two stored intervals are equal
\* by value
InsertNew ==
  \E I \in Intervals \ {container[g] : g \in live}, h \in FreeCells(Pack) :
    \E levelsL \in Flips(Pack, I.inf), levelsR \in Flips(Pack, I.sup) :
      InsertOf(I, h, levelsL, levelsR)

NextDistinct == InsertNew \/ Remove

SpecDistinct == Init /\ [][NextDistinct]_vars


\* ------------------------------------------------------------ queries
\* a query that empties the eqMarkers lists it has read
queryDropsEqMarkers(S) == [S EXCEPT !.eqMarkers = [n \in AllNodes |-> <<>>]]

\* what a query leaves of the list S: find_intervals, is_contained, search
\* and size assign to their local variables and to the output only
AfterQuery(S) == S

\* lastOp keeps the query, its argument and its result
QueryOf(op, q, result) ==
  /\ ~fault /\ ops <= MaxQueryOps
  /\ Unpack(AfterQuery(Pack))
  /\ lastOp' = [op |-> op, ret |-> result, gone |-> {}, arg |-> q]
  /\ UNCHANGED ops

FindIntervals ==
  \E q \in Queries : QueryOf("find_intervals", q, find_intervals(Pack, q))

IsContained ==
  \E q \in Queries : QueryOf("is_contained", q, is_contained(Pack, q))

Search == \E q \in Queries : QueryOf("search", q, search(Pack, q))

Size == QueryOf("size", 0, size(Pack))

EarlyInsert == ops < MaxQueryOps /\ Insert

EarlyRemove == ops < MaxQueryOps /\ Remove

\* the runs of at most MaxQueryOps inserts and removes, with queries at
\* any place between them
NextQueries ==
  EarlyInsert \/ EarlyRemove \/ FindIntervals \/ IsContained \/ Search \/ Size

SpecQueries == Init /\ [][NextQueries]_vars

\* ------------------------------------------------------------- claims
Count(seq, v) == Cardinality({k \in 1..Len(seq) : seq[k] = v})

\* the cells that store an interval equal to I
Stored(I) == {h \in live : container[h] = I}

\* the key nodes met on the level 0 chain from x
RECURSIVE Chain(_, _)
Chain(fwd, x) ==
  IF fwd[x][0] = NULL THEN {} ELSE {fwd[x][0]} \cup Chain(fwd, fwd[x][0])

\* the last node of the level i chain from c whose key is at most key
RECURSIVE Cover(_, _, _)
Cover(c, i, key) ==
  LET d == forward[c][i] IN
  IF d # NULL /\ d <= key THEN Cover(d, i, key) ELSE c

\* C1: in every state between calls and for every q, find_intervals(q)
\* writes exactly the stored intervals that contain q, one per stored copy,
\* and nothing else
C1_StabbingExact ==
  ~fault =>
    \A q \in Queries :
      LET out == find_intervals(Pack, q) IN
      /\ \A I \in Intervals :
           Count(out, I) =
             IF contains(I, q) THEN Cardinality(Stored(I)) ELSE 0
      /\ \A k \in 1..Len(out) : out[k] \in Intervals

\* C2: remove(I) of a stored I returns true, and releases exactly one cell
\* that stored I while every other stored interval stays stored
C2_RemoveStored ==
  [][lastOp'.op = "remove" =>
       \A I \in Intervals :
         (Stored(I) # {} /\ RemoveOf(I)) =>
           /\ lastOp'.ret
           /\ ~fault'
           /\ \E h \in Stored(I) :
                /\ live' = live \ {h}
                /\ \A g \in live' : container'[g] = container[g]]_vars

\* C3: remove(I) of an I that is not stored returns false, changes nothing
\* and raises no fault
C3_RemoveAbsent ==
  [][lastOp'.op = "remove" =>
       \A I \in Intervals :
         (Stored(I) = {} /\ RemoveOf(I)) =>
           /\ ~lastOp'.ret
           /\ ~fault'
           /\ UNCHANGED <<nodes, topLevel, forward, markers, eqMarkers,
                          ownerCount, maxLevel, container, live>>]_vars

OnStaircase(n, h) ==
  \/ \E i \in 0..topLevel[n] : Has(markers[n][i], h)
  \/ \E a \in nodes : \E i \in 0..topLevel[a] :
       forward[a][i] = n /\ Has(markers[a][i], h)
  \/ container[h].inf = n /\ container[h].sup = n

C6_NodeAccounting ==
  ~fault =>
    /\ Chain(forward, HEADER) = nodes
    /\ \A n \in nodes : ownerCount[n] > 0
    /\ \A a \in nodes \cup {HEADER} : \A i \in Levels :
         forward[a][i] \in nodes \cup {NULL}
    /\ \A n \in lastOp.gone : ownerCount[n] = 0 /\ n \notin nodes

\* a successful remove deleted a node that lay between two nodes that stay
C6_Witness ==
  /\ ~fault
  /\ lastOp.op = "remove" /\ lastOp.ret
  /\ \E n \in lastOp.gone : \E a, b \in nodes :
       a < n /\ n < b /\ topLevel[a] > 0 /\ forward[a][1] = b

\* C7: ownerCount of a key node is the number of ends of stored intervals
\* at its key, and is never negative
C7_OwnerCount ==
  ~fault =>
    /\ \A n \in nodes :
         ownerCount[n] = Cardinality({h \in live : container[h].inf = n})
                           + Cardinality({h \in live : container[h].sup = n})
    /\ \A n \in AllNodes : ownerCount[n] >= 0

\* C8: insert raises size() by one, a remove that returns true lowers it by
\* one
C8_SizeLaw ==
  [][/\ (lastOp'.op = "insert" /\ ~fault') => size(Pack)' = size(Pack) + 1
     /\ (lastOp'.op = "remove" /\ lastOp'.ret) =>
          size(Pack)' = size(Pack) - 1]_vars

\* C9: for every q that I contains, find_intervals(q) writes as many copies
\* of I as are stored
C9_Duplicates ==
  ~fault =>
    \A I \in Intervals : \A q \in I.inf..I.sup :
      Count(find_intervals(Pack, q), I) = Cardinality(Stored(I))

\* C10: no marker list holds a handle to a released interval cell
C10_NoDanglingHandle ==
  ~fault => \A L \in AllLists(Pack) : \A k \in 1..Len(L) : L[k] \in live

\* the keys that are an end of a stored interval
Endpoints == {container[h].inf : h \in live} \cup {container[h].sup : h \in live}

\* C11: is_contained(v) is true iff a key node with key v exists, which is
\* iff some stored interval has v as an end; it is false for a v strictly
\* between two keys or above the largest key
C11_IsContained ==
  ~fault =>
    \A v \in Queries :
      /\ is_contained(Pack, v) <=> v \in nodes
      /\ v \in nodes <=> v \in Endpoints

\* C12: search(q) returns the key node whose key is q when there is one and
\* null otherwise, and it returns a node iff some stored interval has q as
\* an end
C12_Search ==
  ~fault =>
    \A q \in Queries :
      /\ search(Pack, q) = (IF q \in nodes THEN q ELSE NULL)
      /\ search(Pack, q) # NULL <=> q \in Endpoints

\* C13: a remove(I) right after a remove(I) that returned true returns
\* false, raises no fault and leaves the index as the first removal left it
C13_RemoveTwice ==
  [][\A I \in Intervals :
       (/\ lastOp.op = "remove" /\ lastOp.ret /\ lastOp.arg = I
        /\ RemoveOf(I)) =>
         /\ ~lastOp'.ret
         /\ ~fault'
         /\ UNCHANGED <<nodes, topLevel, forward, markers, eqMarkers,
                        ownerCount, maxLevel, live>>
         /\ \A h \in live : container'[h] = container[h]]_vars

\* the nodes met on the level i chain from x, in order; a chain that has not
\* reached null after fuel nodes is cut there
RECURSIVE LevelChain(_, _, _)
LevelChain(i, x, fuel) ==
  IF forward[x][i] = NULL \/ fuel = 0 THEN <<>>
  ELSE <<forward[x][i]>> \o LevelChain(i, forward[x][i], fuel - 1)

Ascending(c) == \A k \in 1..(Len(c) - 1) : c[k] < c[k + 1]

Visits(c) == {c[k] : k \in 1..Len(c)}

\* C14: following forward[0] from the header visits every key node exactly
\* once, in strictly ascending key order, and ends at null; search finds
\* every key of the list, so insert never makes a second node for it
C14_LevelZeroOrder ==
  ~fault =>
    /\ Ascending(LevelChain(0, HEADER, MaxVal + 1))
    /\ Visits(LevelChain(0, HEADER, MaxVal + 1)) = nodes
    /\ Len(LevelChain(0, HEADER, MaxVal + 1)) = Cardinality(nodes)
    /\ \A n \in nodes : searchUpdate(Pack, n).x = n

\* a successful remove deleted a node between two nodes that are now
\* neighbours on level 0
C14_Witness ==
  /\ ~fault
  /\ lastOp.op = "remove" /\ lastOp.ret
  /\ \E n \in lastOp.gone : \E a, b \in nodes :
       a < n /\ n < b /\ forward[a][0] = b

\* C15: a key node with top level L is on the level i chain from the header
\* for every i <= L and for no i > L; each level i chain is strictly
\* ascending, ends at null and never leads to a node that has been removed
C15_TowerShape ==
  ~fault =>
    \A i \in Levels :
      /\ Ascending(LevelChain(i, HEADER, MaxVal + 1))
      /\ Len(LevelChain(i, HEADER, MaxVal + 1)) <= Cardinality(nodes)
      /\ Visits(LevelChain(i, HEADER, MaxVal + 1)) =
           {n \in nodes : i <= topLevel[n]}

\* a successful remove deleted a node that stood before a node of top level
\* 1 or more, and a node of level 0 stays in the list
C15_Witness ==
  /\ ~fault
  /\ lastOp.op = "remove" /\ lastOp.ret
  /\ \E g \in lastOp.gone : \E a, n \in nodes :
       g < n /\ topLevel[n] > 0 /\ topLevel[a] = 0

\* C16: clear() releases every key node, every marker cell and every
\* interval cell; after it the list is as a new one: size() is 0, the
\* iteration over the stored intervals is empty, no key node exists and
\* find_intervals(q) writes nothing for every q
C16_Clear ==
  [][lastOp'.op = "clear" =>
       /\ size(Pack)' = 0
       /\ live' = {}
       /\ nodes' = {}
       /\ \A q \in Queries : find_intervals(Pack, q)' = <<>>
       /\ Pack' = EmptyList]_vars

\* C17: the constructor from a finite sequence of intervals gives the list
\* that the default constructor followed by insert of each element in
\* order gives (with the same coin flips), and raises no fault
C17_RangeConstructor ==
  [][lastOp'.op = "construct" =>
       /\ ~fault'
       /\ Pack' = InsertAll(EmptyList, lastOp'.arg.seq, lastOp'.arg.flips, 1)]_vars

\* cell h is on no edge, and in eqMarkers of node v only
OnNodeOnly(S, h, v) ==
  /\ \A n \in AllNodes : \A i \in Levels : ~Has(S.markers[n][i], h)
  /\ \A n \in AllNodes : Has(S.eqMarkers[n], h) <=> n = v

\* C18: insert(I) of I = [v,v] uses the one node v for both ends, raises
\* its ownerCount by 2 and puts I on no edge, only in eqMarkers of node v;
\* remove(I) of a stored I = [v,v] returns true, lowers ownerCount of node
\* v by 2, and deletes the node iff no other stored interval has an end
\* at v
C18_ZeroLength ==
  [][/\ lastOp'.op = "insert" =>
          \A h \in live' \ live :
            container'[h].inf = container'[h].sup =>
              /\ ~fault'
              /\ nodes' = nodes \cup {container'[h].inf}
              /\ ownerCount'[container'[h].inf] =
                   ownerCount[container'[h].inf] + 2
              /\ OnNodeOnly(Pack', h, container'[h].inf)
     /\ lastOp'.op = "remove" =>
          \A v \in Keys :
            (Stored([inf |-> v, sup |-> v]) # {} /\ RemoveOf([inf |-> v, sup |-> v])) =>
              /\ lastOp'.ret /\ ~fault'
              /\ ownerCount'[v] = IF v \in nodes' THEN ownerCount[v] - 2 ELSE 0
              /\ ownerCount[v] = 2 <=> v \notin nodes'
              /\ v \notin nodes' <=>
                   \A g \in live' :
                     container'[g].inf # v /\ container'[g].sup # v]_vars

\* C19: every node has its top level in 0..MAX_FORWARD-1, the header
\* exactly MAX_FORWARD-1, and maxLevel never exceeds MAX_FORWARD-1: a list
\* whose maxLevel is in that range draws no level above it, whatever the
\* coin flips, so update[0..MAX_FORWARD-1] is never indexed out of range
C19_LevelBound ==
  /\ topLevel[HEADER] = MAX_FORWARD - 1
  /\ \A n \in nodes : topLevel[n] \in 0..(MAX_FORWARD - 1)
  /\ maxLevel \in 0..(MAX_FORWARD - 1)
  /\ \A m \in 0..(MAX_FORWARD - 1) : \A levels \in 0..MAX_FORWARD :
       randomLevel([maxLevel |-> m], levels) \in 0..(MAX_FORWARD - 1)

\* the levels of the edges out of node a that carry cell h
MarkedOut(h, a) == {i \in Levels : Has(markers[a][i], h)}

\* the node at the end of a marked edge out of x
StairNext(h, x) == forward[x][CHOOSE i \in MarkedOut(h, x) : TRUE]

\* the nodes met by following the marked edges of cell h from node x
RECURSIVE Stair(_, _, _)
Stair(h, x, fuel) ==
  IF x = NULL THEN {}
  ELSE IF x = container[h].sup \/ MarkedOut(h, x) = {} \/ fuel = 0 THEN {x}
  ELSE {x} \cup Stair(h, StairNext(h, x), fuel - 1)

\* the marked edges of cell h are those of the path: one out of every node
\* of the path but the last, which is the node of its right end
OneStaircase(h, path) ==
  /\ container[h].sup \in path
  /\ \A a \in path \ {container[h].sup} : Cardinality(MarkedOut(h, a)) = 1
  /\ \A a \in AllNodes \ (path \ {container[h].sup}) : MarkedOut(h, a) = {}

\* C20: for every stored I with inf < sup the edges that carry a marker of
\* I are one path from the node of I.inf to the node of I.sup: every node
\* of the path but the last has exactly one marked edge out of it, and no
\* edge outside the path is marked with I
C20_Staircase ==
  ~fault =>
    \A h \in live :
      container[h].inf < container[h].sup =>
        /\ container[h].inf \in nodes
        /\ OneStaircase(h, Stair(h, container[h].inf, MaxVal))

\* the node that search(I.inf(), update) hands to removeMarkers, or NULL
\* when remove(I) returns before the walk
LeftAt(x) == IF x = NULL \/ ownerCount[x] <= 0 THEN NULL ELSE x

LeftOf(I) == LeftAt(searchUpdate(Pack, I.inf).x)

\* the walk of removeMarkers that remove(I) makes in this state
WalkOf(I) == removeWalk(Pack, LeftOf(I), I)

\* W ended without a fault, every remove(I, tmp) found a cell, all of them
\* hold the one handle res, *res == I, and no list refers to res any more
CleanWalk(W, I) ==
  /\ ~W.S.fault
  /\ ~W.missed
  /\ W.taken = {W.res}
  /\ W.res \in live /\ container[W.res] = I
  /\ ~Referenced(W.S, W.res)

\* C21: when remove(I) is called for a stored I, every remove(I, tmp) that
\* removeMarkers issues on an edge list or an eqMarkers list finds a cell,
\* all the cells it removes refer to one and the same interval cell, no
\* marker of that cell is left behind, and the handle it returns satisfies
\* *res == I
C21_RemoveMarkersWalk ==
  ~fault =>
    \A I \in Intervals :
      Stored(I) # {} => LeftOf(I) = I.inf /\ CleanWalk(WalkOf(I), I)

\* C22: for every q the lists that the descent of find_intervals(q) copies
\* to the output hold the handle of every stored interval cell at most once
\* in total
C22_NoDuplicateHarvest ==
  ~fault =>
    \A q \in Queries : \A h \in live : Count(find_handles(Pack, q), h) <= 1

\* what remove(x, update) is called with: for every level of x, update[i]
\* is a node of the list whose forward[i] is x, and no entry of update that
\* search wrote is a node that is gone
UpdateOk(S, x, update) ==
  /\ \A i \in 0..S.topLevel[x] :
       /\ update[i] \in S.nodes \cup {HEADER}
       /\ S.forward[update[i]][i] = x
  /\ \A i \in 0..S.maxLevel : update[i] \in S.nodes \cup {HEADER}

\* T is what remove(x, update) leaves: x is no node and no forward pointer
\* refers to it
SplicedOut(T, x) ==
  ~T.fault =>
    /\ x \notin T.nodes
    /\ \A n \in AllNodes : \A i \in Levels : T.forward[n][i] # x

\* S has the owner count of x lowered: the call of remove(x, update), if
\* it is made, is as C23 says
DropOk(S, x, update) ==
  S.ownerCount[x] = 0 =>
    UpdateOk(S, x, update) /\ SplicedOut(removeNode(S, x, update), x)

\* r is what the second search, search(I.sup(), update), returns
RightOk(S, r) ==
  (r.x # NULL /\ S.ownerCount[r.x] > 0) =>
    DropOk([S EXCEPT !.ownerCount[r.x] = @ - 1], r.x, r.update)

\* S is the list after the left endpoint has been dealt with
AfterLeft(S, I) == S.fault \/ RightOk(S, searchUpdate(S, I.sup))

\* S is the list after removeMarkers and release_element
LeftOk(S, I, left, update) ==
  /\ DropOk([S EXCEPT !.ownerCount[left] = @ - 1], left, update)
  /\ AfterLeft(DropOwner(S, left, update), I)

\* rm is what removeMarkers returns
WalkedOk(I, left, update, rm) ==
  rm.S.fault \/ LeftOk([rm.S EXCEPT !.live = @ \ {rm.res}], I, left, update)

\* r is what the first search, search(I.inf(), update), returns
RemoveOk(I, r) ==
  LeftAt(r.x) # NULL => WalkedOk(I, r.x, r.update, removeMarkers(Pack, r.x, I))

\* C23: whenever remove(I) calls remove(x, update), for the left endpoint
\* and, after a fresh search, for the right endpoint, update[i] is for every
\* i <= x.topLevel a node of the list with update[i]->forward[i] == x, no
\* entry of update refers to a node that is gone, and after the splice no
\* forward pointer at any level refers to x
C23_RemoveNodeUpdate ==
  ~fault => \A I \in Intervals : RemoveOk(I, searchUpdate(Pack, I.inf))

\* remove(I) deletes both endpoint nodes of I, the left one of level 1 or
\* more, and a node stays behind
C23_Witness ==
  /\ ~fault
  /\ \E I \in Intervals :
       /\ Stored(I) # {} /\ I.inf < I.sup
       /\ ownerCount[I.inf] = 1 /\ ownerCount[I.sup] = 1
       /\ topLevel[I.inf] > 0
       /\ nodes \ {I.inf, I.sup} # {}
       /\ removeInterval(Pack, I).ret

\* C24: insert(searchKey) for a key that has a node returns that node and
\* changes nothing: no node is made, no forward pointer, marker list,
\* eqMarkers list or maxLevel changes, whatever the coin flips would be
C24_InsertExistingKey ==
  ~fault =>
    \A k \in nodes : \A levels \in 0..(MaxLevel + 1) :
      insertValue(Pack, k, levels) = [S |-> Pack, x |-> k]

\* an insert has met the node of one of its endpoints: the node has two
\* owners, and marks lie on the edge out of it
C24_Witness ==
  /\ ~fault
  /\ lastOp.op = "insert"
  /\ \E k \in nodes : \E i \in Levels :
       ownerCount[k] >= 2 /\ topLevel[k] >= 1 /\ markers[k][i] # <<>>

\* r is what insert(k) returns for a list S that has no node of key k: the
\* new node has a level of at most S.maxLevel + 1; a level above S.maxLevel
\* becomes the maxLevel, and the marker lists of the header on the levels
\* the list gains are empty; otherwise maxLevel stays
NewLevelOk(S, k, r) ==
  /\ r.x = k /\ k \in r.S.nodes
  /\ r.S.topLevel[k] \in 0..(S.maxLevel + 1)
  /\ r.S.maxLevel = IF r.S.topLevel[k] > S.maxLevel
                    THEN r.S.topLevel[k] ELSE S.maxLevel
  /\ \A i \in Levels :
       (S.maxLevel < i /\ i <= r.S.topLevel[k]) => r.S.markers[HEADER][i] = <<>>

EndpointOk(S, k, levels) ==
  k \notin S.nodes => NewLevelOk(S, k, insertValue(S, k, levels))

\* a is what insert(I.inf()) returns: the insertion of the right endpoint
RightEndpointOk(I, a) ==
  a.S.fault \/ \A levelsR \in Flips(a.S, I.sup) : EndpointOk(a.S, I.sup, levelsR)

\* C25: a new key node has a level of at most maxLevel + 1, maxLevel taken
\* before the insertion; when the level is above maxLevel the marker lists
\* of the header on the levels the list gains are empty and maxLevel
\* becomes that level, so that one endpoint insertion raises maxLevel by at
\* most one, and only to the level of the node it makes; this holds for
\* both endpoint insertions of every insert(I)
C25_NewLevel ==
  ~fault =>
    \A I \in Intervals :
      \A levelsL \in Flips(Pack, I.inf) :
        /\ EndpointOk(Pack, I.inf, levelsL)
        /\ RightEndpointOk(I, insertValue(Pack, I.inf, levelsL))

\* the list has gained levels one at a time up to MaxLevel, the last with
\* the node of the greater key, and randomLevel has cut a draw
C25_Witness ==
  /\ ~fault
  /\ lastOp.op = "insert"
  /\ maxLevel = MaxLevel
  /\ \E a, b \in nodes :
       a < b /\ topLevel[a] = MaxLevel - 1 /\ topLevel[b] = MaxLevel

\* the nodes of the level i chain from l up to, but excluding, r
RECURSIVE Span(_, _, _, _)
Span(i, l, r, fuel) ==
  IF l = NULL \/ l = r \/ fuel = 0 THEN {}
  ELSE {l} \cup Span(i, forward[l][i], r, fuel - 1)

\* L2 is L without one of its elements equal to M, or L when it has none
TookOne(L, L2, M) ==
  IF \A k \in 1..Len(L) : container[L[k]] # M THEN L2 = L
  ELSE \E k \in 1..Len(L) : container[L[k]] = M /\ L2 = DropAt(L, k)

\* T is what removeMarkFromLevel(M, i, l, r) leaves, span the chain l..r
StripOk(T, M, i, r, span) ==
  /\ \A n \in span :
       /\ TookOne(markers[n][i], T.markers[n][i], M)
       /\ TookOne(eqMarkers[n], T.eqMarkers[n], M)
  /\ (r # NULL) =>
       /\ TookOne(eqMarkers[r], T.eqMarkers[r], M)
       /\ T.markers[r][i] = markers[r][i]
  /\ \A n \in AllNodes : \A j \in Levels :
       (j # i \/ n \notin span) => T.markers[n][j] = markers[n][j]
  /\ \A n \in AllNodes \ (span \cup {r}) : T.eqMarkers[n] = eqMarkers[n]
  /\ [T EXCEPT !.markers = markers, !.eqMarkers = eqMarkers] = Pack

\* C26: removeMarkFromLevel(M, i, l, r) takes one occurrence of M from
\* markers[i] and from eqMarkers of every node of the level i chain from l
\* up to, but excluding, r, and one occurrence from the eqMarkers of r; it
\* leaves markers[i] of r, the marker lists of every other level, the nodes
\* outside the chain l..r and all forward pointers as they are; the lists
\* it is given are those of the states that MaxStripOps operations reach
C26_RemoveMarkFromLevel ==
  (~fault /\ ops <= MaxStripOps) =>
    \A M \in Intervals : \A i \in 0..maxLevel :
      \A l \in {HEADER} \cup {n \in nodes : topLevel[n] >= i} :
        \A r \in Visits(LevelChain(i, l, MaxVal + 1)) \cup {l, NULL} :
          StripOk(removeMarkFromLevel(Pack, M, i, l, r), M, i, r,
                  Span(i, l, r, MaxVal + 1))

\* a chain of two edges that carry M among other marks, on a level above 0
C26_Witness ==
  /\ ~fault /\ ops <= MaxStripOps
  /\ \E M \in Intervals : \E i \in 1..maxLevel : \E l, r \in nodes :
       /\ Cardinality(Span(i, l, r, MaxVal + 1)) = 2
       /\ r \in Visits(LevelChain(i, l, MaxVal + 1))
       /\ \A n \in Span(i, l, r, MaxVal + 1) :
            /\ Len(markers[n][i]) >= 2
            /\ \E k \in 1..Len(markers[n][i]) : container[markers[n][i][k]] = M
       /\ \E k \in 1..Len(eqMarkers[r]) : container[eqMarkers[r][k]] = M

\* C27: an edge out of the header is never marked: markers[i] of the
\* header is empty for every level i, and so is eqMarkers of the header
C27_HeaderUnmarked ==
  ~fault =>
    /\ \A i \in Levels : markers[HEADER][i] = <<>>
    /\ eqMarkers[HEADER] = <<>>

\* remove has deleted the first node of a list that keeps nodes of level 1
\* or more and marks: its update vector held the header
C27_Witness ==
  /\ ~fault
  /\ lastOp.op = "remove"
  /\ \E g \in lastOp.gone : \A n \in nodes : g < n
  /\ \E n \in nodes : \E i \in 1..MaxLevel :
       topLevel[n] >= i /\ markers[n][i] # <<>>

\* The cursor x of placeMarkers and of removeMarkers moves in the same way,
\* whatever the marker lists hold. The nodes it steps to, in order; NULL is
\* the last of them when it has followed a null pointer
RECURSIVE WalkDown(_, _, _, _)
WalkDownAt(S, I, x, j) ==
  IF S.forward[x][j] = NULL THEN <<NULL>>
  ELSE <<S.forward[x][j]>> \o WalkDown(S, I, S.forward[x][j], j)

\* the non-ascending loop: while(x->key != right->key)
WalkDown(S, I, x, i) ==
  IF x = I.sup THEN <<>> ELSE WalkDownAt(S, I, x, Descend(S, I, x, i))

RECURSIVE WalkUp(_, _, _, _)
WalkUpAt(S, I, x, j) ==
  <<S.forward[x][j]>> \o WalkUp(S, I, S.forward[x][j], j)

\* the ascending loop
WalkUp(S, I, x, i) ==
  IF S.forward[x][i] # NULL /\ contains_interval(I, x, S.forward[x][i])
  THEN WalkUpAt(S, I, x, Climb(S, I, x, i))
  ELSE WalkDown(S, I, x, i)

cursorWalk(S, I, left) == <<left>> \o WalkUp(S, I, left, 0)

\* the cursor has followed no null pointer, has passed no node with a key
\* above I.sup, and stands on the node of I.sup at the end
PathOk(p, I) ==
  /\ \A k \in 1..Len(p) : p[k] # NULL /\ p[k] <= I.sup
  /\ p[Len(p)] = I.sup

\* b is what insert(I.sup()) returns: the list that placeMarkers is given
PlaceWalkOk(I, b) == b.S.fault \/ PathOk(cursorWalk(b.S, I, I.inf), I)

\* a is what insert(I.inf()) returns
InsertWalkOk(I, a) ==
  a.S.fault \/ \A levelsR \in Flips(a.S, I.sup) :
                 PlaceWalkOk(I, insertValue(a.S, I.sup, levelsR))

\* the walk of removeMarkers for remove(I)
RemoveWalkOk(I) ==
  /\ LeftOf(I) = I.inf
  /\ PathOk(cursorWalk(Pack, I, I.inf), I)
  /\ ~WalkOf(I).S.fault /\ WalkOf(I).x = I.sup

\* C28: for insert(I), and for remove(I) of a stored I, with inf < sup, the
\* ascending and the non-ascending loop of placeMarkers and of
\* removeMarkers end with the cursor on the node of key I.sup: the cursor
\* never follows a null forward pointer and never passes a node with a key
\* above I.sup
C28_WalkEndsAtSup ==
  ~fault =>
    \A I \in Intervals :
      I.inf < I.sup =>
        /\ \A levelsL \in Flips(Pack, I.inf) :
             InsertWalkOk(I, insertValue(Pack, I.inf, levelsL))
        /\ Stored(I) # {} => RemoveWalkOk(I)

\* C29: every interval found in markers[i] of a key node a is stored, the
\* level i edge of a ends at a node b, and the interval contains
\* [a.key, b.key]
C29_MarkerSound ==
  ~fault =>
    \A a \in nodes : \A i \in Levels : \A k \in 1..Len(markers[a][i]) :
      /\ markers[a][i][k] \in live
      /\ forward[a][i] # NULL
      /\ contains_interval(container[markers[a][i][k]], a, forward[a][i])

\* C30: every interval found in eqMarkers of a key node n is stored and
\* contains n.key; this includes the intervals that adjustMarkersOnDelete
\* adds to eqMarkers without a test while it demotes the markers to the
\* right of the deleted node
C30_EqMarkerSound ==
  ~fault =>
    \A n \in nodes : \A k \in 1..Len(eqMarkers[n]) :
      /\ eqMarkers[n][k] \in live
      /\ contains(container[eqMarkers[n][k]], n)

\* C31: no marker list of an edge and no eqMarkers list holds the handle of
\* one interval cell more than once
C31_NoRepeatedHandle ==
  ~fault =>
    \A L \in AllLists(Pack) : \A j, k \in 1..Len(L) : L[j] = L[k] => j = k

\* the lists L1 and L2 hold the same interval cells, each as often
SameCells(L1, L2) == \A h \in Handles : Count(L1, h) = Count(L2, h)

\* T has the key nodes of S with the same levels, forward pointers and
\* owner counts, and every marker list of T holds the cells it holds in S
Restored(S, T) ==
  /\ T.nodes = S.nodes
  /\ T.topLevel = S.topLevel
  /\ T.forward = S.forward
  /\ T.ownerCount = S.ownerCount
  /\ \A n \in AllNodes :
       /\ SameCells(S.eqMarkers[n], T.eqMarkers[n])
       /\ \A i \in Levels : SameCells(S.markers[n][i], T.markers[n][i])

\* r is what remove(I) returns
RoundTripOk(S, r) == r.ret /\ ~r.S.fault /\ Restored(S, r.S)

\* S1 is what insert(I) makes of S
AfterInsert(S, S1, I) == ~S1.fault /\ RoundTripOk(S, removeInterval(S1, I))

\* C32: insert(I) followed at once by remove(I) returns true and restores
\* the list, whatever the levels of the new nodes: the same key nodes with
\* the same levels, forward pointers and owner counts, and every marker
\* list and eqMarkers list with the same cells as before the insert
C32_InsertRemoveRoundTrip ==
  ~fault =>
    \A I \in Intervals : \A h \in FreeCells(Pack) :
      \A levelsL \in Flips(Pack, I.inf) : \A levelsR \in Flips(Pack, I.sup) :
        AfterInsert(Pack, insertInterval(Pack, I, h, levelsL, levelsR), I)

C34_ContainedIfStabbed ==
  ~fault =>
    \A q \in Queries :
      /\ find_intervals(Pack, q) # <<>> => is_contained(Pack, q)
      /\ (live = {} \/ nodes = {}) => ~is_contained(Pack, q)

\* find_intervals reports an interval for a q that is the key of no node,
\* and another q has no interval and is_contained false
C34_Witness ==
  /\ ~fault
  /\ \E q \in Queries \ nodes :
       find_intervals(Pack, q) # <<>> /\ is_contained(Pack, q)
  /\ \E q \in Queries :
       find_intervals(Pack, q) = <<>> /\ ~is_contained(Pack, q)

\* C35: every key node has topLevel <= maxLevel; maxLevel never goes down
\* under insert or remove, the deletion of a node does not lower it, and
\* only clear() sets it back to 0
C35_MaxLevelMonotone ==
  [][~fault' =>
       /\ \A n \in nodes' : topLevel'[n] \in 0..maxLevel'
       /\ lastOp'.op \in {"insert", "remove"} => maxLevel' >= maxLevel
       /\ maxLevel' < maxLevel => (lastOp'.op = "clear" /\ maxLevel' = 0)]_vars

\* remove has deleted the highest node: the nodes that stay are all lower
\* than maxLevel
C35_Witness ==
  /\ ~fault
  /\ lastOp.op = "remove" /\ lastOp.gone # {}
  /\ nodes # {}
  /\ maxLevel = MaxLevel
  /\ \A n \in nodes : topLevel[n] < maxLevel

=============================================================================
